---- MODULE Spec2Model ----
(***************************************************************************)
(* Model of scripts/image_train.py: the training driver main() and the     *)
(* checkpoint-name parser parse_epoch().                                   *)
(*                                                                         *)
(* Strings are sequences of one-character strings; Python's indexing,      *)
(* slicing and int() are modelled by what they do on such sequences.       *)
(***************************************************************************)
EXTENDS Integers, Sequences, FiniteSets, TLC

VARIABLES
    args,            \* the parsed command line (argparse Namespace)
    mpc,             \* main(): the statement about to run
    calls,           \* main(): the external calls completed so far, in order
    log_dir,         \* main(): the log directory exists
    model_kwargs,    \* what create_diffusion_model received
    diffusion_kwargs,\* what create_gaussian_diffusion received
    data_args,       \* what load_data received
    arguments_json,  \* the contents written to arguments.json, one per write
    model_params,    \* where the model's parameters come from
    start_epoch,     \* main(): local start_epoch
    run_calls,       \* the keyword arguments of each run_loop call
    error,           \* the exception that ended main(), or NoError
    ckpt_path,       \* parse_epoch(): its argument
    ppc,             \* parse_epoch(): the statement about to run
    start_idx,       \* parse_epoch(): local start_idx
    end_idx,         \* parse_epoch(): local end_idx
    epoch,           \* parse_epoch(): the returned value
    perr,            \* parse_epoch(): the exception raised, or "none"
    scanned          \* parse_epoch(): 1-based positions read by the while test

vars == <<args, mpc, calls, log_dir, model_kwargs, diffusion_kwargs, data_args,
          arguments_json, model_params, start_epoch, run_calls, error,
          ckpt_path, ppc, start_idx, end_idx, epoch, perr, scanned>>

mainVars == <<args, mpc, calls, log_dir, model_kwargs, diffusion_kwargs,
              data_args, arguments_json, model_params, start_epoch, run_calls,
              error>>

parseVars == <<ckpt_path, ppc, start_idx, end_idx, epoch, perr, scanned>>

(***************************************************************************)
(* Bounds of the model.                                                    *)
(***************************************************************************)
\* longest stem of the exhaustively enumerated paths
MaxLen == 4
\* the naming scheme is exercised for every epoch 0..MaxEpoch
MaxEpoch == 25

(***************************************************************************)
(* Python strings.                                                         *)
(***************************************************************************)
Digits == <<"0", "1", "2", "3", "4", "5", "6", "7", "8", "9">>

IsDigit(c) == \E i \in 1..10 : Digits[i] = c

DigitVal(c) == (CHOOSE i \in 1..10 : Digits[i] = c) - 1

\* s[i] is defined for -len(s) <= i < len(s); anything else is an IndexError
PyIndexOK(s, i) == -Len(s) <= i /\ i < Len(s)

\* the 1-based position that s[i] reads
PyPos(s, i) == IF i >= 0 THEN i + 1 ELSE Len(s) + i + 1

PyIndex(s, i) == s[PyPos(s, i)]

\* a slice bound: negative bounds count from the end, then clamp to 0..len(s)
PyClamp(s, i) ==
    LET j == IF i < 0 THEN i + Len(s) ELSE i
    IN  IF j < 0 THEN 0 ELSE IF j > Len(s) THEN Len(s) ELSE j

\* s[lo:hi]
PySlice(s, lo, hi) == SubSeq(s, PyClamp(s, lo) + 1, PyClamp(s, hi))

\* s[lo:]
PySliceFrom(s, lo) == SubSeq(s, PyClamp(s, lo) + 1, Len(s))

RECURSIVE LStrip(_)
LStrip(s) == IF s # <<>> /\ Head(s) = " " THEN LStrip(Tail(s)) ELSE s

RECURSIVE RStrip(_)
RStrip(s) ==
    IF s # <<>> /\ s[Len(s)] = " " THEN RStrip(SubSeq(s, 1, Len(s) - 1)) ELSE s

\* the digits-and-underscores part of an int() literal: digits, with single
\* underscores allowed between them
IntBodyOK(b) ==
    /\ b # <<>>
    /\ \A i \in 1..Len(b) : IsDigit(b[i]) \/ b[i] = "_"
    /\ IsDigit(b[1]) /\ IsDigit(b[Len(b)])
    /\ \A i \in 1..(Len(b) - 1) : ~(b[i] = "_" /\ b[i + 1] = "_")

RECURSIVE IntBodyVal(_, _)
IntBodyVal(b, acc) ==
    IF b = <<>> THEN acc
    ELSE IF Head(b) = "_" THEN IntBodyVal(Tail(b), acc)
    ELSE IntBodyVal(Tail(b), 10 * acc + DigitVal(Head(b)))

\* int(s): surrounding whitespace is stripped, one sign is allowed, the rest
\* must be a decimal literal; anything else is a ValueError (ok = FALSE)
PyInt(s) ==
    LET t == RStrip(LStrip(s))
        signed == t # <<>> /\ t[1] \in {"+", "-"}
        body == IF signed THEN Tail(t) ELSE t
    IN  IF IntBodyOK(body)
        THEN [ok |-> TRUE,
              val |-> IF signed /\ t[1] = "-" THEN 0 - IntBodyVal(body, 0)
                      ELSE IntBodyVal(body, 0)]
        ELSE [ok |-> FALSE, val |-> 0]

\* str(n), as an f-string writes an integer
RECURSIVE PyStr(_)
PyStr(n) ==
    IF n < 0 THEN <<"-">> \o PyStr(0 - n)
    ELSE IF n < 10 THEN <<Digits[n + 1]>>
    ELSE PyStr(n \div 10) \o <<Digits[(n % 10) + 1]>>

(***************************************************************************)
(* Checkpoint names.                                                       *)
(***************************************************************************)
DotPt == <<".", "p", "t">>

\* f'{save_dir}/model_{epoch}.pt'
ModelName(save_dir, e) ==
    save_dir \o <<"/", "m", "o", "d", "e", "l", "_">> \o PyStr(e) \o DotPt

\* f'{save_dir}/ema_{ema_rate}_{epoch}.pt'
EmaName(save_dir, rate, e) ==
    save_dir \o <<"/", "e", "m", "a", "_">> \o rate \o <<"_">> \o PyStr(e) \o DotPt

(***************************************************************************)
(* parse_epoch(ckpt_path)                                                  *)
(***************************************************************************)
\* line 123: ckpt_path[-3:] == '.pt'
EndsWithPt(path) == PySliceFrom(path, -3) = DotPt

\* line 124: end_idx = -3
EndIdxInit == 0 - 3

\* line 127: start_idx -= 1
ScanNext(i) == i - 1

\* a slip: line 128 left out, so the field starts at the underscore
EpochFieldFromUnderscore(path, i, e) == PySlice(path, i, e)

\* a slip: the end of the field taken one character early
EpochFieldShort(path, i, e) == PySlice(path, i + 1, e - 1)

\* lines 128-129: start_idx += 1; ckpt_path[start_idx : end_idx]
EpochField(path, i, e) == PySlice(path, i + 1, e)

PeRaise(kind) ==
    /\ ppc' = "raised"
    /\ perr' = kind

\* a slip: the extension is not checked
PeAssertUnchecked ==
    /\ ppc = "assert"
    /\ end_idx' = EndIdxInit
    /\ start_idx' = EndIdxInit
    /\ ppc' = "while"
    /\ UNCHANGED <<perr, ckpt_path, epoch, scanned>>
    /\ UNCHANGED mainVars

\* lines 123-125
PeAssert ==
    /\ ppc = "assert"
    /\ IF EndsWithPt(ckpt_path)
       THEN /\ end_idx' = EndIdxInit
            /\ start_idx' = EndIdxInit
            /\ ppc' = "while"
            /\ UNCHANGED perr
       ELSE /\ PeRaise("AssertionError")
            /\ UNCHANGED <<start_idx, end_idx>>
    /\ UNCHANGED <<ckpt_path, epoch, scanned>>
    /\ UNCHANGED mainVars

\* a slip: an index that wraps around the string instead of failing
PeWhileWrapping ==
    /\ ppc = "while"
    /\ LET pos == (start_idx % Len(ckpt_path)) + 1
       IN  /\ scanned' = Append(scanned, pos)
           /\ IF ckpt_path[pos] # "_"
              THEN /\ start_idx' = ScanNext(start_idx)
                   /\ UNCHANGED <<ppc, perr>>
              ELSE /\ ppc' = "convert"
                   /\ UNCHANGED <<start_idx, perr>>
    /\ UNCHANGED <<ckpt_path, end_idx, epoch>>
    /\ UNCHANGED mainVars

\* lines 126-127: one evaluation of the while test, and the body if it holds
PeWhile ==
    /\ ppc = "while"
    /\ IF ~PyIndexOK(ckpt_path, start_idx)
       THEN /\ PeRaise("IndexError")
            /\ UNCHANGED <<start_idx, scanned>>
       ELSE /\ scanned' = Append(scanned, PyPos(ckpt_path, start_idx))
            /\ IF PyIndex(ckpt_path, start_idx) # "_"
               THEN /\ start_idx' = ScanNext(start_idx)
                    /\ UNCHANGED <<ppc, perr>>
               ELSE /\ ppc' = "convert"
                    /\ UNCHANGED <<start_idx, perr>>
    /\ UNCHANGED <<ckpt_path, end_idx, epoch>>
    /\ UNCHANGED mainVars

\* lines 128-130
PeConvert ==
    /\ ppc = "convert"
    /\ start_idx' = start_idx + 1
    /\ LET r == PyInt(EpochField(ckpt_path, start_idx, end_idx))
       IN  IF r.ok
           THEN /\ epoch' = r.val
                /\ ppc' = "returned"
                /\ UNCHANGED perr
           ELSE /\ PeRaise("ValueError")
                /\ UNCHANGED epoch
    /\ UNCHANGED <<ckpt_path, end_idx, scanned>>
    /\ UNCHANGED mainVars

ParseDone == ppc \in {"returned", "raised"}

(***************************************************************************)
(* The inputs parse_epoch is run on.                                       *)
(***************************************************************************)
Alphabet == {"_", ".", "p", "t", "7", "-", "m"}

Stems == UNION {[1..n -> Alphabet] : n \in 0..MaxLen}

Suffixes == {<<>>, DotPt}

Epochs == (0..MaxEpoch) \cup {250, 4000}

SaveDirs == {<<>>, <<"l", "o", "g", "s", "_", "x">>}

EmaRates == {<<"0", ".", "9", "9", "9", "9">>, <<"1">>, <<"0", "_", "5">>}

Model250 == <<"m", "o", "d", "e", "l", "_", "2", "5", "0", ".", "p", "t">>

Ema4000 ==
    <<"e", "m", "a", "_", "0", ".", "9", "9", "9", "9", "_", "4", "0", "0", "0",
      ".", "p", "t">>

ModelMinus5 == <<"m", "o", "d", "e", "l", "_", "-", "5", ".", "p", "t">>

ModelNoUnderscore == <<"m", "o", "d", "e", "l", ".", "p", "t">>

ModelX == <<"m", "o", "d", "e", "l", "_", "x", ".", "p", "t">>

ModelPth == <<"m", "o", "d", "e", "l", "_", "7", ".", "p", "t", "h">>

ExtraPaths ==
    {Model250, Ema4000, ModelMinus5, ModelNoUnderscore, ModelX, ModelPth,
     <<"m", "o", "d", "e", "l", "_", "+", "7", ".", "p", "t">>,
     <<"m", "o", "d", "e", "l", "_", " ", "7", ".", "p", "t">>,
     <<"m", "o", "d", "e", "l", "_", "0", "0", "7", ".", "p", "t">>,
     <<"a", "_", "b", "/", "m", "o", "d", "e", "l", ".", "p", "t">>}

NamedPaths ==
    {ModelName(d, e) : d \in SaveDirs, e \in Epochs}
    \cup {EmaName(d, r, e) : d \in SaveDirs, r \in EmaRates, e \in Epochs}

ParseInputs ==
    {s \o x : s \in Stems, x \in Suffixes} \cup NamedPaths \cup ExtraPaths

(***************************************************************************)
(* The command line.                                                       *)
(***************************************************************************)
\* lines 25-37
DEFAULT_IM ==
    [clevr |-> "sample_images/clevr_im_10.png",
     mnist |-> "sample_images/mnist_digit_4.png",
     clevr_toy |-> "im_8_clevr_toy.png",
     celebahq |-> "im_19_celebahq.jpg",
     falcor3d |-> "im_10_falcor3d.png",
     kitti |-> "im_41_kitti.png",
     vkitti |-> "im_12_vkitti.jpg",
     comb_kitti |-> "im_41_kitti.png",
     tetris |-> "im_6_tetris.png",
     anime |-> "im_8_anime.jpg",
     faces |-> "im_19_celebahq.jpg"]

\* lines 132-144: the keys of training_defaults()
TrainingKeys ==
    {"dataset", "log_folder", "num_images", "p_uncond", "latent_orthog",
     "extra_desc", "downweight", "epoch_block", "num_its", "use_dist"}

\* the keys of the model defaults main() selects (lines 75-80)
ModelKeys == {"model_desc", "emb_dim", "num_components", "image_size"}

\* the keys of diffusion_defaults()
DiffusionKeys == {"steps", "predict_xstart"}

\* the options the claims single out, each with two values to tell runs apart
TrainerOptions == {"lr", "weight_decay", "ema_rate", "log_interval", "save_interval"}

ResumePaths ==
    {<<>>, Model250, Ema4000, ModelMinus5, ModelNoUnderscore, ModelX, ModelPth}

\* lines 147-169: the options and the values a run may give them
OptionValues ==
    [data_dir |-> {"data"},
     lr |-> {"1e-4", "1e-3"},
     weight_decay |-> {"0.0", "0.05"},
     batch_size |-> {1, 2},
     ema_rate |-> {"0.9999", "0.99"},
     log_interval |-> {10, 100},
     save_interval |-> {10000, 500},
     resume_checkpoint |-> ResumePaths,
     dataset |-> {"clevr", "custom"},
     log_folder |-> {"None"},
     num_images |-> {"None"},
     p_uncond |-> {0},
     latent_orthog |-> {FALSE},
     extra_desc |-> {<<>>},
     downweight |-> {FALSE},
     epoch_block |-> {10000},
     num_its |-> {200},
     use_dist |-> BOOLEAN,
     model_desc |-> {"unet_model"},
     emb_dim |-> {64},
     num_components |-> {4},
     num_run |-> {1},
     image_size |-> {64},
     steps |-> {1000},
     predict_xstart |-> {TRUE}]

\* the Namespace objects parse_args() may return
ArgSpace ==
    [data_dir : OptionValues.data_dir,
     lr : OptionValues.lr,
     weight_decay : OptionValues.weight_decay,
     batch_size : OptionValues.batch_size,
     ema_rate : OptionValues.ema_rate,
     log_interval : OptionValues.log_interval,
     save_interval : OptionValues.save_interval,
     resume_checkpoint : OptionValues.resume_checkpoint,
     dataset : OptionValues.dataset,
     log_folder : OptionValues.log_folder,
     num_images : OptionValues.num_images,
     p_uncond : OptionValues.p_uncond,
     latent_orthog : OptionValues.latent_orthog,
     extra_desc : OptionValues.extra_desc,
     downweight : OptionValues.downweight,
     epoch_block : OptionValues.epoch_block,
     num_its : OptionValues.num_its,
     use_dist : OptionValues.use_dist,
     model_desc : OptionValues.model_desc,
     emb_dim : OptionValues.emb_dim,
     num_components : OptionValues.num_components,
     num_run : OptionValues.num_run,
     image_size : OptionValues.image_size,
     steps : OptionValues.steps,
     predict_xstart : OptionValues.predict_xstart]

\* args_to_dict(args, keys)
args_to_dict(a, keys) == [k \in keys |-> a[k]]

\* lines 59-65
SaveDesc(a) ==
    <<a.model_desc, a.dataset, a.num_images,
      IF a.predict_xstart THEN "xstart" ELSE "eps", "emb", a.emb_dim,
      a.num_components, a.num_run>>
    \o (IF a.p_uncond > 0 THEN <<"free">> ELSE <<>>)
    \o (IF Len(a.extra_desc) > 0 THEN <<a.extra_desc>> ELSE <<>>)

\* lines 42, 67-68
LogFolder(a) ==
    IF a.log_folder = "None" THEN <<"logs">> \o SaveDesc(a) ELSE a.log_folder

\* line 82
ModelKwargs(a) == args_to_dict(a, ModelKeys)

\* line 90
DiffusionKwargs(a) == args_to_dict(a, DiffusionKeys)

\* lines 93-94
ArgumentsJson(a) ==
    args_to_dict(a, ModelKeys \cup DiffusionKeys \cup TrainingKeys)

\* lines 98-104
LoadDataArgs(a) ==
    [base_dir |-> a.data_dir, dataset_type |-> a.dataset,
     batch_size |-> a.batch_size, image_size |-> a.image_size,
     num_images |-> a.num_images]

\* line 119
RunLoopArgs(a, model, gd, data, se) ==
    [model |-> model, gd |-> gd, data |-> data, save_desc |-> SaveDesc(a),
     start_epoch |-> se, epoch_block |-> a.epoch_block, num_its |-> a.num_its,
     p_uncond |-> a.p_uncond, default_im |-> DEFAULT_IM[a.dataset],
     latent_orthog |-> a.latent_orthog, dataset |-> a.dataset,
     downweight |-> a.downweight, image_size |-> a.image_size,
     use_dist |-> a.use_dist]

(***************************************************************************)
(* main()                                                                  *)
(***************************************************************************)
NoError == [at |-> "none", kind |-> "none"]

NoCall == [none |-> TRUE]

\* an exception leaves main(): nothing catches it
Fail(at, kind) ==
    /\ mpc' = "failed"
    /\ error' = [at |-> at, kind |-> kind]

\* lines 40-57
SetupDist ==
    /\ mpc = "setup_dist"
    /\ IF args.use_dist
       THEN \/ /\ mpc' = "makedirs"
               /\ calls' = Append(calls, "setup_dist")
               /\ UNCHANGED error
            \/ /\ Fail("setup_dist", "Exception")
               /\ UNCHANGED calls
       ELSE /\ mpc' = "makedirs"
            /\ UNCHANGED <<calls, error>>
    /\ UNCHANGED <<args, log_dir, model_kwargs, diffusion_kwargs, data_args,
                   arguments_json, model_params, start_epoch, run_calls>>
    /\ UNCHANGED parseVars

\* lines 67-71
MakeLogDir ==
    /\ mpc = "makedirs"
    /\ \/ /\ log_dir' = LogFolder(args)
          /\ mpc' = "create_model"
          /\ calls' = Append(calls, "makedirs")
          /\ UNCHANGED error
       \/ /\ Fail("makedirs", "OSError")
          /\ UNCHANGED <<calls, log_dir>>
    /\ UNCHANGED <<args, model_kwargs, diffusion_kwargs, data_args,
                   arguments_json, model_params, start_epoch, run_calls>>
    /\ UNCHANGED parseVars

\* lines 73-88
CreateModel ==
    /\ mpc = "create_model"
    /\ \/ /\ model_kwargs' = ModelKwargs(args)
          /\ model_params' = "init"
          /\ mpc' = "create_diffusion"
          /\ calls' = Append(calls, "create_diffusion_model")
          /\ UNCHANGED error
       \/ /\ Fail("create_diffusion_model", "Exception")
          /\ UNCHANGED <<calls, model_kwargs, model_params>>
    /\ UNCHANGED <<args, log_dir, diffusion_kwargs, data_args, arguments_json,
                   start_epoch, run_calls>>
    /\ UNCHANGED parseVars

\* a slip: the configuration file is not written
CreateDiffusionNoDump ==
    /\ mpc = "create_diffusion"
    /\ diffusion_kwargs' = DiffusionKwargs(args)
    /\ mpc' = "load_data"
    /\ calls' = Append(calls, "create_gaussian_diffusion")
    /\ UNCHANGED <<args, log_dir, model_kwargs, data_args, arguments_json,
                   model_params, start_epoch, run_calls, error>>
    /\ UNCHANGED parseVars

\* lines 90-91
CreateDiffusion ==
    /\ mpc = "create_diffusion"
    /\ \/ /\ diffusion_kwargs' = DiffusionKwargs(args)
          /\ mpc' = "dump_args"
          /\ calls' = Append(calls, "create_gaussian_diffusion")
          /\ UNCHANGED error
       \/ /\ Fail("create_gaussian_diffusion", "Exception")
          /\ UNCHANGED <<calls, diffusion_kwargs>>
    /\ UNCHANGED <<args, log_dir, model_kwargs, data_args, arguments_json,
                   model_params, start_epoch, run_calls>>
    /\ UNCHANGED parseVars

\* lines 93-96
DumpArgs ==
    /\ mpc = "dump_args"
    /\ \/ /\ arguments_json' =
                Append(arguments_json,
                       [dir |-> LogFolder(args), content |-> ArgumentsJson(args)])
          /\ mpc' = "load_data"
          /\ calls' = Append(calls, "json.dump")
          /\ UNCHANGED error
       \/ /\ Fail("json.dump", "OSError")
          /\ UNCHANGED <<calls, arguments_json>>
    /\ UNCHANGED <<args, log_dir, model_kwargs, diffusion_kwargs, data_args,
                   model_params, start_epoch, run_calls>>
    /\ UNCHANGED parseVars

\* lines 98-106
LoadData ==
    /\ mpc = "load_data"
    /\ \/ /\ data_args' = LoadDataArgs(args)
          /\ mpc' = "default_im"
          /\ calls' = Append(calls, "load_data")
          /\ UNCHANGED error
       \/ /\ Fail("load_data", "Exception")
          /\ UNCHANGED <<calls, data_args>>
    /\ UNCHANGED <<args, log_dir, model_kwargs, diffusion_kwargs,
                   arguments_json, model_params, start_epoch, run_calls>>
    /\ UNCHANGED parseVars

\* line 108
DefaultIm ==
    /\ mpc = "default_im"
    /\ IF args.dataset \in DOMAIN DEFAULT_IM
       THEN /\ mpc' = "resume"
            /\ UNCHANGED error
       ELSE Fail("DEFAULT_IM", "KeyError")
    /\ UNCHANGED <<args, calls, log_dir, model_kwargs, diffusion_kwargs,
                   data_args, arguments_json, model_params, start_epoch,
                   run_calls>>
    /\ UNCHANGED parseVars

\* lines 110-111
ResumeBranch ==
    /\ mpc = "resume"
    /\ start_epoch' = 0
    /\ mpc' = IF Len(args.resume_checkpoint) > 0 THEN "th_load" ELSE "run_loop"
    /\ UNCHANGED <<args, calls, log_dir, model_kwargs, diffusion_kwargs,
                   data_args, arguments_json, model_params, run_calls, error>>
    /\ UNCHANGED parseVars

\* a slip: the name is parsed before the loaded parameters are applied
TorchLoadThenParse ==
    /\ mpc = "th_load"
    /\ mpc' = "call_parse_epoch"
    /\ calls' = Append(calls, "th.load")
    /\ UNCHANGED <<args, log_dir, model_kwargs, diffusion_kwargs, data_args,
                   arguments_json, model_params, start_epoch, run_calls, error>>
    /\ UNCHANGED parseVars

\* lines 112-114
TorchLoad ==
    /\ mpc = "th_load"
    /\ \/ /\ mpc' = "load_state_dict"
          /\ calls' = Append(calls, "th.load")
          /\ UNCHANGED error
       \/ /\ Fail("th.load", "Exception")
          /\ UNCHANGED calls
    /\ UNCHANGED <<args, log_dir, model_kwargs, diffusion_kwargs, data_args,
                   arguments_json, model_params, start_epoch, run_calls>>
    /\ UNCHANGED parseVars

\* line 115: a failing load_state_dict may already have copied some tensors
LoadStateDict ==
    /\ mpc = "load_state_dict"
    /\ \/ /\ model_params' = "checkpoint"
          /\ mpc' = "call_parse_epoch"
          /\ calls' = Append(calls, "load_state_dict")
          /\ UNCHANGED error
       \/ /\ Fail("load_state_dict", "RuntimeError")
          /\ model_params' \in {"init", "partial"}
          /\ UNCHANGED calls
    /\ UNCHANGED <<args, log_dir, model_kwargs, diffusion_kwargs, data_args,
                   arguments_json, start_epoch, run_calls>>
    /\ UNCHANGED parseVars

\* line 116: the call
CallParseEpoch ==
    /\ mpc = "call_parse_epoch"
    /\ mpc' = "in_parse_epoch"
    /\ ckpt_path' = args.resume_checkpoint
    /\ ppc' = "assert"
    /\ UNCHANGED <<start_idx, end_idx, epoch, perr, scanned>>
    /\ UNCHANGED <<args, calls, log_dir, model_kwargs, diffusion_kwargs,
                   data_args, arguments_json, model_params, start_epoch,
                   run_calls, error>>

\* a slip: the parsed epoch is not stored
ParseEpochReturnDropped ==
    /\ mpc = "in_parse_epoch"
    /\ ppc = "returned"
    /\ mpc' = "run_loop"
    /\ calls' = Append(calls, "parse_epoch")
    /\ UNCHANGED <<args, log_dir, model_kwargs, diffusion_kwargs, data_args,
                   arguments_json, model_params, start_epoch, run_calls, error>>
    /\ UNCHANGED parseVars

\* lines 116-117: the call returns
ParseEpochReturn ==
    /\ mpc = "in_parse_epoch"
    /\ ppc = "returned"
    /\ start_epoch' = epoch
    /\ mpc' = "run_loop"
    /\ calls' = Append(calls, "parse_epoch")
    /\ UNCHANGED <<args, log_dir, model_kwargs, diffusion_kwargs, data_args,
                   arguments_json, model_params, run_calls, error>>
    /\ UNCHANGED parseVars

\* a slip: the error is caught and training starts from epoch 0
ParseEpochRaiseCaught ==
    /\ mpc = "in_parse_epoch"
    /\ ppc = "raised"
    /\ mpc' = "run_loop"
    /\ UNCHANGED <<args, calls, log_dir, model_kwargs, diffusion_kwargs,
                   data_args, arguments_json, model_params, start_epoch,
                   run_calls, error>>
    /\ UNCHANGED parseVars

\* line 116: the call raises, and main() has no handler
ParseEpochRaise ==
    /\ mpc = "in_parse_epoch"
    /\ ppc = "raised"
    /\ Fail("parse_epoch", perr)
    /\ UNCHANGED <<args, calls, log_dir, model_kwargs, diffusion_kwargs,
                   data_args, arguments_json, model_params, start_epoch,
                   run_calls>>
    /\ UNCHANGED parseVars

\* line 119
RunLoop ==
    /\ mpc = "run_loop"
    /\ run_calls' =
          Append(run_calls,
                 RunLoopArgs(args,
                             [kwargs |-> model_kwargs, params |-> model_params],
                             diffusion_kwargs, data_args, start_epoch))
    /\ calls' = Append(calls, "run_loop")
    /\ \/ /\ mpc' = "done"
          /\ UNCHANGED error
       \/ Fail("run_loop", "Exception")
    /\ UNCHANGED <<args, log_dir, model_kwargs, diffusion_kwargs, data_args,
                   arguments_json, model_params, start_epoch>>
    /\ UNCHANGED parseVars

(***************************************************************************)
(* Specifications.                                                         *)
(***************************************************************************)
DefaultArgs ==
    CHOOSE a \in ArgSpace :
        /\ a.resume_checkpoint = <<>>
        /\ a.dataset = "clevr"
        /\ a.lr = "1e-4"
        /\ a.weight_decay = "0.0"
        /\ a.batch_size = 1
        /\ a.ema_rate = "0.9999"
        /\ a.log_interval = 10
        /\ a.save_interval = 10000
        /\ a.use_dist

InitMainVars(a, pc) ==
    /\ args = a
    /\ mpc = pc
    /\ calls = <<>>
    /\ log_dir = <<>>
    /\ model_kwargs = NoCall
    /\ diffusion_kwargs = NoCall
    /\ data_args = NoCall
    /\ arguments_json = <<>>
    /\ model_params = "none"
    /\ start_epoch = 0
    /\ run_calls = <<>>
    /\ error = NoError

InitParseVars(path, pc) ==
    /\ ckpt_path = path
    /\ ppc = pc
    /\ start_idx = 0
    /\ end_idx = 0
    /\ epoch = 0
    /\ perr = "none"
    /\ scanned = <<>>

\* a run of main() on some command line
Init ==
    /\ \E a \in ArgSpace : InitMainVars(a, "setup_dist")
    /\ InitParseVars(<<>>, "idle")

Next ==
    \/ SetupDist
    \/ MakeLogDir
    \/ CreateModel
    \/ CreateDiffusion
    \/ DumpArgs
    \/ LoadData
    \/ DefaultIm
    \/ ResumeBranch
    \/ TorchLoad
    \/ LoadStateDict
    \/ CallParseEpoch
    \/ PeAssert
    \/ PeWhile
    \/ PeConvert
    \/ ParseEpochReturn
    \/ ParseEpochRaise
    \/ RunLoop

Spec == Init /\ [][Next]_vars

\* a call of parse_epoch() on some path
InitParse ==
    /\ InitMainVars(DefaultArgs, "none")
    /\ \E path \in ParseInputs : InitParseVars(path, "assert")

NextParse ==
    \/ PeAssert
    \/ PeWhile
    \/ PeConvert

\* the interpreter keeps executing the function it is in
SpecParse == InitParse /\ [][NextParse]_vars /\ WF_vars(NextParse)

(***************************************************************************)
(* What a checkpoint name says, read off the name itself.                  *)
(***************************************************************************)
HasPtExtension(s) ==
    /\ Len(s) >= 3
    /\ s[Len(s) - 2] = "."
    /\ s[Len(s) - 1] = "p"
    /\ s[Len(s)] = "t"

Underscores(s) == {i \in 1..Len(s) : s[i] = "_"}

LastUnderscore(s) == CHOOSE i \in Underscores(s) : \A j \in Underscores(s) : j <= i

\* the text between the last '_' and the trailing '.pt'
TrailingField(s) == [i \in 1..(Len(s) - 3 - LastUnderscore(s)) |-> s[LastUnderscore(s) + i]]

AllDigits(f) == f # <<>> /\ \A i \in 1..Len(f) : IsDigit(f[i])

RECURSIVE Pow10(_)
Pow10(n) == IF n = 0 THEN 1 ELSE 10 * Pow10(n - 1)

RECURSIVE DigitSum(_, _)
DigitSum(f, i) ==
    IF i > Len(f) THEN 0
    ELSE DigitVal(f[i]) * Pow10(Len(f) - i) + DigitSum(f, i + 1)

DecimalValue(f) == DigitSum(f, 1)

\* an integer as int() reads one: digits, after at most one sign, blanks around
IntegerLiteral(f) ==
    LET ink == {i \in 1..Len(f) : f[i] # " "}
    IN  /\ ink # {}
        /\ LET a == CHOOSE i \in ink : \A j \in ink : i <= j
               b == CHOOSE i \in ink : \A j \in ink : j <= i
               c == IF f[a] \in {"+", "-"} THEN a + 1 ELSE a
           IN  /\ c <= b
               /\ \A i \in c..b : IsDigit(f[i])

WellFormedName(s) ==
    /\ HasPtExtension(s)
    /\ Underscores(s) # {}
    /\ AllDigits(TrailingField(s))

Before(a, b) ==
    \A j \in 1..Len(calls) :
        calls[j] = b => \E i \in 1..(j - 1) : calls[i] = a

Called(a) == \E i \in 1..Len(calls) : calls[i] = a

(***************************************************************************)
(* Claims.                                                                 *)
(***************************************************************************)

\* C1: for a path '..._{epoch}.pt', parse_epoch returns the integer written
\* between the last '_' and the trailing '.pt'; 'model_250.pt' gives 250 and
\* 'ema_0.9999_4000.pt' gives 4000.
C1_ParsesTrailingEpoch ==
    ParseDone =>
        /\ WellFormedName(ckpt_path) =>
              /\ ppc = "returned"
              /\ epoch = DecimalValue(TrailingField(ckpt_path))
        /\ ckpt_path = Model250 => ppc = "returned" /\ epoch = 250
        /\ ckpt_path = Ema4000 => ppc = "returned" /\ epoch = 4000

C1_Witness == ppc = "returned" /\ ckpt_path = Ema4000 /\ epoch = 4000

\* C2: round trip of the naming scheme: the name written for epoch e, under
\* any save directory and any EMA rate, parses back to e.
C2_RoundTrip ==
    ParseDone =>
        \A d \in SaveDirs, e \in Epochs :
            /\ ckpt_path = ModelName(d, e) => ppc = "returned" /\ epoch = e
            /\ \A r \in EmaRates :
                  ckpt_path = EmaName(d, r, e) => ppc = "returned" /\ epoch = e

C2_Witness ==
    /\ ppc = "returned"
    /\ ckpt_path = EmaName(<<"l", "o", "g", "s", "_", "x">>, <<"0", "_", "5">>, 17)
    /\ epoch = 17

Malformed(s) ==
    \/ ~HasPtExtension(s)
    \/ Underscores(s) = {}
    \/ ~IntegerLiteral(TrailingField(s))

C4_EpochNonNegative ==
    /\ ppc = "returned" => epoch >= 0
    /\ \A i \in 1..Len(run_calls) : run_calls[i].start_epoch >= 0

\* C5: with a resume checkpoint given, a failure to load it, to apply it or
\* to parse its name ends main with an error and run_loop is never called.
C5_MalformedResumeFatal ==
    /\ ppc = "raised" =>
          /\ mpc \in {"in_parse_epoch", "failed"}
          /\ run_calls = <<>>
    /\ error.at \in {"th.load", "load_state_dict", "parse_epoch"} =>
          /\ Len(args.resume_checkpoint) > 0
          /\ mpc = "failed"
          /\ run_calls = <<>>
          /\ ~ENABLED Next

C5_Witness ==
    /\ mpc = "failed"
    /\ error = [at |-> "parse_epoch", kind |-> "ValueError"]
    /\ args.resume_checkpoint = ModelX
    /\ run_calls = <<>>

AfterDump ==
    \/ mpc \in {"load_data", "default_im", "resume", "th_load", "load_state_dict",
                "call_parse_epoch", "in_parse_epoch", "run_loop", "done"}
    \/ error.at \in {"load_data", "DEFAULT_IM", "th.load", "load_state_dict",
                     "parse_epoch", "run_loop"}

C6_WriteOrder ==
    /\ Len(arguments_json) <= 1
    /\ \A i \in 1..Len(arguments_json) :
          /\ log_dir # <<>>
          /\ arguments_json[i].dir = log_dir
    /\ Before("makedirs", "json.dump")
    /\ Before("json.dump", "load_data")
    /\ Before("json.dump", "th.load")
    /\ Before("json.dump", "run_loop")
    /\ AfterDump => Len(arguments_json) = 1

\* C6 as stated: arguments.json is written exactly once per run of main, into
\* the log directory created beforehand, before the data loader is created,
\* before a checkpoint is loaded and before run_loop is called.
C6_WrittenOncePerRun ==
    /\ C6_WriteOrder
    /\ mpc \in {"done", "failed"} => Len(arguments_json) = 1

\* C6 amended: arguments.json is written at most once per run, exactly once
\* in every run that gets as far as creating the data loader, and not at all
\* in a run that fails before the model and the diffusion are built; the
\* order is as stated.
C6_WrittenOnceBeforeDataLoader ==
    /\ C6_WriteOrder
    /\ error.at \in {"setup_dist", "makedirs", "create_diffusion_model",
                     "create_gaussian_diffusion"} =>
          arguments_json = <<>>
    /\ mpc = "done" => Len(arguments_json) = 1

C6_Witness ==
    /\ mpc = "done"
    /\ Len(arguments_json) = 1
    /\ Called("th.load")
    /\ arguments_json[1].content = ArgumentsJson(args)

\* what a run on command line a hands to the model builder, the diffusion
\* builder, the data loader and run_loop
Handed(a) ==
    RunLoopArgs(a, [kwargs |-> ModelKwargs(a), params |-> model_params],
                DiffusionKwargs(a), LoadDataArgs(a), start_epoch)

\* C7: lr, weight decay, EMA rate and the log and save intervals each reach
\* a component: a run that differs in just one of them hands run_loop a
\* different configuration.
C7_EveryOptionConsumed ==
    run_calls # <<>> =>
        /\ run_calls[1] = Handed(args)
        /\ \A k \in TrainerOptions :
              \A v \in OptionValues[k] \ {args[k]} :
                  Handed([args EXCEPT ![k] = v]) # run_calls[1]

\* C8 as stated: the epoch is parsed first, then the parameters are
\* restored, so a bad name fails before the model's parameters are replaced.
C8_ParseBeforeRestore ==
    /\ model_params = "checkpoint" => ppc = "returned"
    /\ ppc = "raised" => model_params # "checkpoint"

\* C8 amended: the checkpoint is loaded and applied to the model first, then
\* the epoch is parsed and the start epoch set; a bad name fails after the
\* model's parameters were replaced, and before run_loop.
C8_RestoreBeforeParse ==
    /\ ppc # "idle" =>
          /\ model_params = "checkpoint"
          /\ Before("th.load", "load_state_dict")
          /\ Called("load_state_dict")
    /\ Before("load_state_dict", "parse_epoch")
    /\ Called("parse_epoch") => ppc = "returned" /\ start_epoch = epoch
    /\ ~Called("parse_epoch") => start_epoch = 0
    /\ ppc = "raised" => model_params = "checkpoint" /\ run_calls = <<>>

C8_Witness ==
    /\ ppc = "raised"
    /\ mpc = "failed"
    /\ model_params = "checkpoint"
    /\ args.resume_checkpoint = ModelNoUnderscore

\* C9: run_loop is called at most once, once in a run that completes; its
\* start_epoch is 0 without a resume checkpoint, and then nothing was loaded,
\* and is what parse_epoch returned for the resume checkpoint otherwise, and
\* then the checkpoint was applied to the model before the call.
C9_StartEpoch ==
    /\ Len(run_calls) <= 1
    /\ (mpc = "done" \/ error.at = "run_loop") => Len(run_calls) = 1
    /\ run_calls # <<>> =>
          IF Len(args.resume_checkpoint) = 0
          THEN /\ run_calls[1].start_epoch = 0
               /\ run_calls[1].model.params = "init"
               /\ ~Called("th.load")
               /\ ~Called("load_state_dict")
               /\ ppc = "idle"
          ELSE /\ ppc = "returned"
               /\ ckpt_path = args.resume_checkpoint
               /\ run_calls[1].start_epoch = epoch
               /\ run_calls[1].model.params = "checkpoint"
               /\ Before("load_state_dict", "run_loop")
               /\ args.resume_checkpoint = Model250 =>
                     run_calls[1].start_epoch = 250

C9_Witness ==
    /\ mpc = "done"
    /\ args.resume_checkpoint = Ema4000
    /\ run_calls[1].start_epoch = 4000
    /\ run_calls[1].model.params = "checkpoint"

\* the backward scan reads the characters before '.pt' one by one, from the
\* '.' towards the start, and never an index past either end
ScanInRange ==
    /\ ppc = "while" =>
          /\ start_idx <= 0 - 3
          /\ start_idx >= 0 - Len(ckpt_path) - 1
    /\ Len(scanned) <= Len(ckpt_path) - 2 \/ scanned = <<>>
    /\ \A i \in 1..Len(scanned) : scanned[i] = Len(ckpt_path) - 1 - i

\* C10: parse_epoch terminates on every input; the backward scan stops at an
\* underscore or runs off the start of the string into an error, and never
\* wraps around to the end of the string.
C10_Terminates == []ScanInRange /\ <>ParseDone

C10_Witness ==
    /\ ppc = "raised"
    /\ perr = "IndexError"
    /\ ckpt_path = DotPt
    /\ scanned = <<1>>

====
